---- MODULE Spec2Model ----
(***************************************************************************)
(* Model of the two eBPF programs of cloud/kernel/ebpf:                    *)
(*   tcp_fingerprint.c  - sockops handler applying a per-process TCP       *)
(*                        profile through bpf_setsockopt                   *)
(*   tls_ja3.c          - bounds-checked Ethernet/IPv4/TCP/TLS walk that   *)
(*                        recognises a TLS ClientHello                     *)
(* A handler invocation is a sequence of steps, one per helper call or     *)
(* shared-counter access, so that the order of the calls is observable.    *)
(***************************************************************************)
EXTENDS Integers, Naturals, Sequences, FiniteSets, TLC

VARIABLES
    tcp_profiles,   \* map tcp_profiles: tgid -> struct tcp_profile, for the tgids that have an entry
    stats,          \* the single slot of map stats (struct tcp_stats)
    pc,             \* position of the tcp_fingerprint_spoof invocation
    skops,          \* struct bpf_sock_ops of the invocation, with the caller's pid_tgid
    calls,          \* bpf_setsockopt calls issued by the invocation, in order
    stats0,         \* value of stats when the invocation was entered
    retval,         \* value returned by the invocation
    nestab,         \* number of full-establishment notifications dispatched so far
    ja3_profiles,   \* map ja3_profiles: tgid -> struct ja3_profile, for the tgids that have an entry
    ja3_stats,      \* the single slot of map ja3_stats_map (struct ja3_stats)
    tpc,            \* position of the packet hook invocation and of its parse
    skb,            \* the hook entered, the caller's pid_tgid and the bytes [data, data_end)
    loc,            \* the parser's pointers ip, tcp, payload, handshake as offsets from data
    reads,          \* the bytes of the buffer the parse has read: header and offset from data
    parse_ret,      \* value returned by parse_tls_client_hello, -1 while it has not returned
    ja3_stats0,     \* value of ja3_stats when the invocation was entered
    nmatch,         \* number of parses that returned 1 to their hook
    hook_ret,       \* value returned by the hook
    cpu             \* invocations running concurrently on other CPUs, by CPU number

tcpVars == <<tcp_profiles, stats, pc, skops, calls, stats0, retval, nestab>>

tlsVars == <<ja3_profiles, ja3_stats, tpc, skb, loc, reads, parse_ret, ja3_stats0,
             nmatch, hook_ret>>

vars == <<tcpVars, tlsVars, cpu>>

(***************************************************************************)
(* Bounds                                                                  *)
(***************************************************************************)
\* no new invocation is started once a counter has reached MaxCount
MaxCount == 2

\* number of CPUs that run an invocation concurrently
NCpus == 3

(***************************************************************************)
(* tcp_fingerprint.c : data                                                *)
(***************************************************************************)
\* NULL result of bpf_map_lookup_elem
NoProfile == [null |-> TRUE]

Bit(k, i) == (k \div (2 ^ i)) % 2

\* struct tcp_profile number k: each of the five fields the handler reads is
\* set or left at its zero sentinel according to one bit of k; the handler
\* never reads the remaining fields, they are carried at 0
TcpProfileOf(k) ==
    [window_size |-> 65535 * Bit(k, 0), ttl |-> 64 * Bit(k, 1), mss |-> 1460 * Bit(k, 2),
     window_scale |-> 0, sack_permitted |-> 0, timestamps |-> 0,
     no_delay |-> Bit(k, 3), initial_congestion_window |-> 0, ecn |-> Bit(k, 4),
     fast_open |-> 0]

\* thread-group ids with an entry in tcp_profiles, one per combination of fields
ProfiledTgids == 1..(2 ^ 5)

\* a thread-group id with no entry in either profile map
UnprofiledTgid == 2 ^ 5 + 1

\* values of bpf_get_current_pid_tgid(): tgid in the high 32 bits, thread id
\* in the low 32 bits (kept as two words)
PidTgid(tgid) == [hi |-> tgid, lo |-> (tgid % UnprofiledTgid) + 1]

PidTgids == {PidTgid(t) : t \in ProfiledTgids \cup {UnprofiledTgid}}

\* x >> 32 on a 64 bit pid_tgid
Shr32(x) == x.hi

\* bpf_map_lookup_elem(&tcp_profiles, &pid)
LookupProfile(pid) == IF pid \in DOMAIN tcp_profiles THEN tcp_profiles[pid] ELSE NoProfile

Families == {"AF_INET", "AF_INET6", "AF_UNIX"}

Ops == {"BPF_SOCK_OPS_TCP_CONNECT_CB", "BPF_SOCK_OPS_PASSIVE_ESTABLISHED_CB",
        "BPF_SOCK_OPS_ACTIVE_ESTABLISHED_CB", "BPF_SOCK_OPS_STATE_CB"}

\* return values of bpf_setsockopt: 0 on success, a negative errno otherwise
SetsockoptRets == {0, -1}

\* skops->family != AF_INET && skops->family != AF_INET6
NotTcpFamily(family) == family # "AF_INET" /\ family # "AF_INET6"

\* the sentinel test written as  >= 0
ConfiguredGe(v) == v >= 0

\* the tests  profile->field > 0  and  if (profile->field)
Configured(v) == v > 0

\* update_stats taking a success back when it counts an error
update_stats_undo(st, error) ==
    IF error # 0
    THEN [st EXCEPT !.errors = @ + 1,
                    !.connections_modified = IF @ > 0 THEN @ - 1 ELSE 0]
    ELSE [st EXCEPT !.connections_modified = @ + 1]

\* update_stats(error)
update_stats(st, error) ==
    IF error # 0
    THEN [st EXCEPT !.errors = @ + 1]
    ELSE [st EXCEPT !.connections_modified = @ + 1]

\* the MSS block placed before the TTL block
ConnectOrderMssFirst == <<"window", "mss", "ttl", "no_delay", "ecn">>

\* order of the mutation blocks of the TCP_CONNECT_CB case
ConnectOrder == <<"window", "ttl", "mss", "no_delay", "ecn">>

\* position reached after the block at position p of the connect case
AfterBlock(p) ==
    LET i == CHOOSE k \in 1..Len(ConnectOrder) : ConnectOrder[k] = p
    IN  IF i < Len(ConnectOrder) THEN ConnectOrder[i + 1] ELSE "stats"

\* the TTL optname chosen without looking at the address family
TtlOptnameV4(family) == "IP_TTL"

\* level and optname of the TTL mutation
TtlLevel(family) == IF family = "AF_INET" THEN "SOL_IP" ELSE "SOL_IPV6"
TtlOptname(family) == IF family = "AF_INET" THEN "IP_TTL" ELSE "IPV6_UNICAST_HOPS"

Call(level, optname, val, ret) ==
    [level |-> level, optname |-> optname, val |-> val, ret |-> ret]

\* struct bpf_sock_ops when no invocation is running
NoSkops == [op |-> "none", family |-> "none", pid_tgid |-> PidTgid(UnprofiledTgid)]

CurProfile == LookupProfile(Shr32(skops.pid_tgid))

(***************************************************************************)
(* tcp_fingerprint.c : tcp_fingerprint_spoof                               *)
(***************************************************************************)
InitTcp ==
    /\ tcp_profiles = [tgid \in ProfiledTgids |-> TcpProfileOf(tgid - 1)]
    /\ stats = [connections_modified |-> 0, packets_processed |-> 0, errors |-> 0]
    /\ pc = "idle"
    /\ skops = NoSkops
    /\ calls = <<>>
    /\ stats0 = stats
    /\ retval = 0
    /\ nestab = 0

\* sum of the counters of both stats records
TotalCount ==
    stats.connections_modified + stats.packets_processed + stats.errors
    + ja3_stats.client_hello_seen + ja3_stats.client_hello_modified
    + ja3_stats.errors + ja3_stats.packets_passed

\* a new invocation may start when the previous one has returned
CanEnter ==
    /\ pc = "idle"
    /\ tpc = "idle"
    /\ TotalCount < MaxCount

Enter(ev) ==
    /\ CanEnter
    /\ skops' = ev
    /\ calls' = <<>>
    /\ stats0' = stats

Return ==
    /\ pc' = "ret"
    /\ retval' = 0

Events == [op : Ops, family : Families, pid_tgid : PidTgids]

\* family is neither AF_INET nor AF_INET6: return 0
EnterNotTcp ==
    /\ CanEnter
    /\ \E ev \in Events :
        /\ Enter(ev)
        /\ NotTcpFamily(ev.family)
        /\ Return
        /\ UNCHANGED <<tlsVars, cpu>> /\ UNCHANGED <<nestab, tcp_profiles, stats>>

\* the connect case with a missing profile breaking out to the final
\* update_stats(0) instead of returning
EnterConnectMissCounted ==
    /\ CanEnter
    /\ \E ev \in Events :
        /\ Enter(ev)
        /\ ~NotTcpFamily(ev.family)
        /\ ev.op = "BPF_SOCK_OPS_TCP_CONNECT_CB"
        /\ IF LookupProfile(Shr32(ev.pid_tgid)) = NoProfile
           THEN pc' = "stats" /\ UNCHANGED retval
           ELSE pc' = ConnectOrder[1] /\ UNCHANGED retval
        /\ UNCHANGED <<tlsVars, cpu>> /\ UNCHANGED <<nestab, tcp_profiles, stats>>

\* case BPF_SOCK_OPS_TCP_CONNECT_CB: profile lookup
EnterConnect ==
    /\ CanEnter
    /\ \E ev \in Events :
        /\ Enter(ev)
        /\ ~NotTcpFamily(ev.family)
        /\ ev.op = "BPF_SOCK_OPS_TCP_CONNECT_CB"
        /\ IF LookupProfile(Shr32(ev.pid_tgid)) = NoProfile
           THEN Return
           ELSE pc' = ConnectOrder[1] /\ UNCHANGED retval
        /\ UNCHANGED <<tlsVars, cpu>> /\ UNCHANGED <<nestab, tcp_profiles, stats>>

\* case BPF_SOCK_OPS_PASSIVE_ESTABLISHED_CB: profile lookup
EnterPassive ==
    /\ CanEnter
    /\ \E ev \in Events :
        /\ Enter(ev)
        /\ ~NotTcpFamily(ev.family)
        /\ ev.op = "BPF_SOCK_OPS_PASSIVE_ESTABLISHED_CB"
        /\ LET profile == LookupProfile(Shr32(ev.pid_tgid))
           IN  IF profile # NoProfile /\ Configured(profile.window_size)
               THEN pc' = "passive_window" /\ UNCHANGED retval
               ELSE Return
        /\ UNCHANGED <<tlsVars, cpu>> /\ UNCHANGED <<nestab, tcp_profiles, stats>>

\* case BPF_SOCK_OPS_ACTIVE_ESTABLISHED_CB
EnterEstablished ==
    /\ CanEnter
    /\ \E ev \in Events :
        /\ Enter(ev)
        /\ ~NotTcpFamily(ev.family)
        /\ ev.op = "BPF_SOCK_OPS_ACTIVE_ESTABLISHED_CB"
        /\ pc' = "established"
        /\ nestab' = nestab + 1
        /\ UNCHANGED <<tlsVars, cpu>> /\ UNCHANGED <<tcp_profiles, stats, retval>>

\* default:
EnterDefault ==
    /\ CanEnter
    /\ \E ev \in Events :
        /\ Enter(ev)
        /\ ~NotTcpFamily(ev.family)
        /\ ev.op \notin {"BPF_SOCK_OPS_TCP_CONNECT_CB",
                         "BPF_SOCK_OPS_PASSIVE_ESTABLISHED_CB",
                         "BPF_SOCK_OPS_ACTIVE_ESTABLISHED_CB"}
        /\ Return
        /\ UNCHANGED <<tlsVars, cpu>> /\ UNCHANGED <<nestab, tcp_profiles, stats>>

\* the window block returning ret instead of 0 when the clamp fails
ConnectWindowPropagates ==
    /\ pc = "window"
    /\ IF Configured(CurProfile.window_size)
       THEN \E ret \in SetsockoptRets :
              /\ calls' = Append(calls, Call("SOL_TCP", "TCP_WINDOW_CLAMP",
                                             CurProfile.window_size, ret))
              /\ IF ret # 0
                 THEN stats' = update_stats(stats, 1) /\ pc' = "ret" /\ retval' = ret
                 ELSE pc' = AfterBlock("window") /\ UNCHANGED <<stats, retval>>
       ELSE pc' = AfterBlock("window") /\ UNCHANGED <<stats, retval, calls>>
    /\ UNCHANGED <<tlsVars, cpu>> /\ UNCHANGED <<nestab, tcp_profiles, skops, stats0>>

\* Modify TCP window size
ConnectWindow ==
    /\ pc = "window"
    /\ IF Configured(CurProfile.window_size)
       THEN \E ret \in SetsockoptRets :
              /\ calls' = Append(calls, Call("SOL_TCP", "TCP_WINDOW_CLAMP",
                                             CurProfile.window_size, ret))
              /\ IF ret # 0
                 THEN stats' = update_stats(stats, 1) /\ Return
                 ELSE pc' = AfterBlock("window") /\ UNCHANGED <<stats, retval>>
       ELSE pc' = AfterBlock("window") /\ UNCHANGED <<stats, retval, calls>>
    /\ UNCHANGED <<tlsVars, cpu>> /\ UNCHANGED <<nestab, tcp_profiles, skops, stats0>>

\* Modify TTL
ConnectTtl ==
    /\ pc = "ttl"
    /\ IF Configured(CurProfile.ttl)
       THEN \E ret \in SetsockoptRets :
              /\ calls' = Append(calls, Call(TtlLevel(skops.family),
                                             TtlOptname(skops.family),
                                             CurProfile.ttl, ret))
              /\ IF ret # 0
                 THEN stats' = update_stats(stats, 1) /\ Return
                 ELSE pc' = AfterBlock("ttl") /\ UNCHANGED <<stats, retval>>
       ELSE pc' = AfterBlock("ttl") /\ UNCHANGED <<stats, retval, calls>>
    /\ UNCHANGED <<tlsVars, cpu>> /\ UNCHANGED <<nestab, tcp_profiles, skops, stats0>>

\* Modify MSS
ConnectMss ==
    /\ pc = "mss"
    /\ IF Configured(CurProfile.mss)
       THEN \E ret \in SetsockoptRets :
              /\ calls' = Append(calls, Call("SOL_TCP", "TCP_MAXSEG",
                                             CurProfile.mss, ret))
              /\ IF ret # 0
                 THEN stats' = update_stats(stats, 1) /\ Return
                 ELSE pc' = AfterBlock("mss") /\ UNCHANGED <<stats, retval>>
       ELSE pc' = AfterBlock("mss") /\ UNCHANGED <<stats, retval, calls>>
    /\ UNCHANGED <<tlsVars, cpu>> /\ UNCHANGED <<nestab, tcp_profiles, skops, stats0>>

\* Enable/disable TCP_NODELAY: a failure is counted, the pass continues
ConnectNoDelay ==
    /\ pc = "no_delay"
    /\ IF Configured(CurProfile.no_delay)
       THEN \E ret \in SetsockoptRets :
              /\ calls' = Append(calls, Call("SOL_TCP", "TCP_NODELAY", 1, ret))
              /\ IF ret # 0
                 THEN stats' = update_stats(stats, 1)
                 ELSE UNCHANGED stats
       ELSE UNCHANGED <<stats, calls>>
    /\ pc' = AfterBlock("no_delay")
    /\ UNCHANGED <<tlsVars, cpu>> /\ UNCHANGED <<nestab, tcp_profiles, skops, stats0, retval>>

\* ECN support: ret is assigned and never tested
ConnectEcn ==
    /\ pc = "ecn"
    /\ IF Configured(CurProfile.ecn)
       THEN \E ret \in SetsockoptRets :
              calls' = Append(calls, Call("SOL_TCP", "TCP_ECN", CurProfile.ecn, ret))
       ELSE UNCHANGED calls
    /\ pc' = AfterBlock("ecn")
    /\ UNCHANGED <<tlsVars, cpu>> /\ UNCHANGED <<nestab, tcp_profiles, stats, skops, stats0, retval>>

\* update_stats(0); break; return 0
ConnectStats ==
    /\ pc = "stats"
    /\ stats' = update_stats(stats, 0)
    /\ Return
    /\ UNCHANGED <<tlsVars, cpu>> /\ UNCHANGED <<nestab, tcp_profiles, skops, calls, stats0>>

\* the passive window clamp with its failure counted as on the connect side
PassiveWindowCounted ==
    /\ pc = "passive_window"
    /\ \E ret \in SetsockoptRets :
         /\ calls' = Append(calls, Call("SOL_TCP", "TCP_WINDOW_CLAMP",
                                        CurProfile.window_size, ret))
         /\ stats' = IF ret # 0 THEN update_stats(stats, 1) ELSE stats
    /\ Return
    /\ UNCHANGED <<tlsVars, cpu>> /\ UNCHANGED <<nestab, tcp_profiles, skops, stats0>>

\* passive side: window clamp, result ignored
PassiveWindow ==
    /\ pc = "passive_window"
    /\ \E ret \in SetsockoptRets :
         calls' = Append(calls, Call("SOL_TCP", "TCP_WINDOW_CLAMP",
                                     CurProfile.window_size, ret))
    /\ Return
    /\ UNCHANGED <<tlsVars, cpu>> /\ UNCHANGED <<nestab, tcp_profiles, stats, skops, stats0>>

\* the establishment counted through update_stats(0)
EstablishedAsModified ==
    /\ pc = "established"
    /\ stats' = update_stats(stats, 0)
    /\ Return
    /\ UNCHANGED <<tlsVars, cpu>> /\ UNCHANGED <<nestab, tcp_profiles, skops, calls, stats0>>

\* Connection fully established: packets_processed += 1
Established ==
    /\ pc = "established"
    /\ stats' = [stats EXCEPT !.packets_processed = @ + 1]
    /\ Return
    /\ UNCHANGED <<tlsVars, cpu>> /\ UNCHANGED <<nestab, tcp_profiles, skops, calls, stats0>>

(***************************************************************************)
(* tcp_fingerprint.c : tcp_socket_create                                   *)
(***************************************************************************)
SockTypes == {"SOCK_STREAM", "SOCK_DGRAM"}

\* struct bpf_sock handed to tcp_socket_create, with the caller's pid_tgid
Socks == [op : {"sock_create"}, family : Families, type : SockTypes, pid_tgid : PidTgids]

\* return 1: the socket is allowed
Allow ==
    /\ pc' = "ret"
    /\ retval' = 1

\* family is neither AF_INET nor AF_INET6: return 1
SockCreateNotInet ==
    /\ CanEnter
    /\ \E sk \in Socks :
        /\ Enter(sk)
        /\ NotTcpFamily(sk.family)
        /\ Allow
        /\ UNCHANGED <<tlsVars, cpu>> /\ UNCHANGED <<nestab, tcp_profiles, stats>>

\* type is not SOCK_STREAM: return 1
SockCreateNotStream ==
    /\ CanEnter
    /\ \E sk \in Socks :
        /\ Enter(sk)
        /\ ~NotTcpFamily(sk.family)
        /\ sk.type # "SOCK_STREAM"
        /\ Allow
        /\ UNCHANGED <<tlsVars, cpu>> /\ UNCHANGED <<nestab, tcp_profiles, stats>>

\* TCP socket created, the profile is applied on connect: return 1
SockCreateTcp ==
    /\ CanEnter
    /\ \E sk \in Socks :
        /\ Enter(sk)
        /\ ~NotTcpFamily(sk.family)
        /\ sk.type = "SOCK_STREAM"
        /\ Allow
        /\ UNCHANGED <<tlsVars, cpu>> /\ UNCHANGED <<nestab, tcp_profiles, stats>>

\* the handler has returned: its context and locals are gone
HandlerDone ==
    /\ pc = "ret"
    /\ pc' = "idle"
    /\ skops' = NoSkops
    /\ calls' = <<>>
    /\ stats0' = stats
    /\ UNCHANGED <<tlsVars, cpu>> /\ UNCHANGED <<nestab, tcp_profiles, stats, retval>>

(***************************************************************************)
(* tls_ja3.c : data                                                        *)
(***************************************************************************)
TLS_HANDSHAKE == 22
TLS_CLIENT_HELLO == 1
ETH_P_IP == 2048
IPPROTO_TCP == 6
HTTPS_PORT == 443

\* sizeof(struct ethhdr), sizeof(struct iphdr), sizeof(struct tcphdr)
EthHdrLen == 14
IpHdrLen == 20
TcpHdrLen == 20
\* sizeof(struct tls_record), sizeof(struct tls_handshake), both packed
TlsRecordLen == 5
TlsHandshakeLen == 4

\* struct ja3_profile of thread-group tgid: enabled for tgid 1, disabled for
\* tgid 2; the hooks read the enabled flag only, the lists are left empty
Ja3ProfileOf(tgid) ==
    [tls_version |-> 771, cipher_count |-> 0, extension_count |-> 0, curve_count |-> 0,
     format_count |-> 0, enabled |-> IF tgid = 1 THEN 1 ELSE 0]

\* callers of the packet hooks: enabled profile, disabled profile, no profile
HookPidTgids == {PidTgid(1), PidTgid(2), PidTgid(UnprofiledTgid)}

\* bpf_map_lookup_elem(&ja3_profiles, &pid)
LookupJa3(pid) == IF pid \in DOMAIN ja3_profiles THEN ja3_profiles[pid] ELSE NoProfile

\* the test without its enabled half: !profile
NoJa3NullOnly(profile) == profile = NoProfile

\* !profile || !profile->enabled
NoJa3(profile) == IF profile = NoProfile THEN TRUE ELSE profile.enabled = 0

\* update_ja3_stats that loses the increment
update_ja3_stats_lost(st, counter) == st

\* update_ja3_stats(&stats->counter): atomic add of 1 to one counter
update_ja3_stats(st, counter) == [st EXCEPT ![counter] = @ + 1]

\* the byte at data + off; the parse never reads at or past data_end
\* (C4_ReadsInBounds), a byte there is given as 0 only to keep Byte total
Byte(data, off) == IF off + 1 \in DOMAIN data THEN data[off + 1] ELSE 0

\* load of a __u16 field at data + off on the little-endian target
LoadU16(data, off) == Byte(data, off) + 256 * Byte(data, off + 1)

\* bpf_htons taken as the identity
bpf_htons_id(x) == x

\* bpf_htons on the little-endian target: swap the two bytes
bpf_htons(x) == (x % 256) * 256 + (x \div 256)

\* a __u32 as its two 16 bit halves
U32(hi, lo) == [hi |-> hi, lo |-> lo]

\* skops->remote_port of a connection to TCP port p: the kernel keeps the
\* port in network byte order in the __u32, which on the little-endian
\* target is the big-endian 16 bit port shifted into the upper half
\* (the value of bpf_htonl(p))
RemotePortField(p) == U32(LoadU16(<<p \div 256, p % 256>>, 0), 0)

\* remote ports of the connections seen by ja3_sockops
RemotePorts == {443, 80, 47873}

\* ip->ihl: low nibble of the first byte of struct iphdr
Ihl(b) == b % 16

\* tcp->doff: high nibble of byte 12 of struct tcphdr
Doff(b) == b \div 16

\* the bounds test off by one: a header ending one byte past data_end passes
OverrunsOffByOne(base, size, end) == base + size > end + 1

\* (void *)(hdr + 1) > data_end, with hdr at offset base and data_end at offset end
Overruns(base, size, end) == base + size > end

(***************************************************************************)
(* frames handed to the packet hooks                                       *)
(***************************************************************************)
\* longest frame built: Ethernet, 60 byte IPv4 header, 60 byte TCP header,
\* TLS record header and handshake header
FrameCap == EthHdrLen + 60 + 60 + TlsRecordLen + TlsHandshakeLen

Put(s, off, b) == IF off + 1 \in DOMAIN s THEN [s EXCEPT ![off + 1] = b] ELSE s

\* a frame of len bytes: ethertype et, IPv4 header with the given ihl and
\* protocol, TCP header with destination port dport and data offset doff,
\* TLS record of content type ct, handshake message of type mt; fields that
\* overlap (ihl < 5, doff < 5) overwrite each other in this order
MkFrame(len, et, proto, ihl, dport, doff, ct, mt) ==
    LET z  == [i \in 1..FrameCap |-> 0]
        t  == EthHdrLen + 4 * ihl
        p  == t + 4 * doff
        f1 == Put(Put(z, 12, et \div 256), 13, et % 256)
        f2 == Put(Put(f1, 14, 64 + ihl), 23, proto)
        f3 == Put(Put(Put(f2, t + 2, dport \div 256), t + 3, dport % 256), t + 12, doff * 16)
        f4 == Put(Put(f3, p, ct), p + 5, mt)
    IN  SubSeq(f4, 1, len)

\* lengths that cut the frame just before and just after each header end
FrameLens(ihl, doff) ==
    LET t == EthHdrLen + 4 * ihl
        p == t + 4 * doff
    IN  {0, 13, 14, 33, 34, t + 19, t + 20, p + 4, p + 5, p + 8, p + 9} \cap (0..FrameCap)

Frames ==
    UNION { UNION { { MkFrame(len, f.et, f.proto, f.ihl, f.dport, f.doff, f.ct, f.mt)
                      : len \in FrameLens(f.ihl, f.doff) } }
            : f \in [et : {2048, 34525}, proto : {6, 17}, ihl : {0, 5, 15},
                     dport : {443, 80, 47873}, doff : {0, 5, 15},
                     ct : {22, 23}, mt : {1, 2}] }

NoLoc == [ip |-> -1, tcp |-> -1, payload |-> -1, handshake |-> -1]

NoSkb == [hook |-> "none", pid_tgid |-> PidTgid(UnprofiledTgid), data |-> <<>>]

Rd(hdr, offs) == {[hdr |-> hdr, off |-> o] : o \in offs}

(***************************************************************************)
(* tls_ja3.c : ja3_socket_filter, ja3_tc_egress, parse_tls_client_hello    *)
(***************************************************************************)
InitTls ==
    /\ ja3_profiles = [tgid \in {1, 2} |-> Ja3ProfileOf(tgid)]
    /\ ja3_stats = [client_hello_seen |-> 0, client_hello_modified |-> 0,
                    errors |-> 0, packets_passed |-> 0]
    /\ tpc = "idle"
    /\ skb = NoSkb
    /\ loc = NoLoc
    /\ reads = {}
    /\ parse_ret = -1
    /\ ja3_stats0 = ja3_stats
    /\ nmatch = 0
    /\ hook_ret = "none"

CanEnterTls ==
    /\ tpc = "idle"
    /\ pc = "idle"
    /\ TotalCount < MaxCount

EnterHook(hook, pid_tgid, data) ==
    /\ CanEnterTls
    /\ skb' = [hook |-> hook, pid_tgid |-> pid_tgid, data |-> data]
    /\ ja3_stats0' = ja3_stats
    /\ UNCHANGED <<ja3_profiles, ja3_stats, loc, reads, parse_ret, nmatch>>

\* ja3_socket_filter: no profile or profile disabled, return 0
FilterPass ==
    /\ CanEnterTls
    /\ \E pid_tgid \in HookPidTgids, data \in Frames :
        /\ EnterHook("socket", pid_tgid, data)
        /\ NoJa3(LookupJa3(Shr32(pid_tgid)))
        /\ tpc' = "ret"
        /\ hook_ret' = "0"
        /\ UNCHANGED <<tcpVars, cpu>>

\* ja3_socket_filter: profile enabled, call parse_tls_client_hello
FilterParse ==
    /\ CanEnterTls
    /\ \E pid_tgid \in HookPidTgids, data \in Frames :
        /\ EnterHook("socket", pid_tgid, data)
        /\ ~NoJa3(LookupJa3(Shr32(pid_tgid)))
        /\ tpc' = "START"
        /\ UNCHANGED hook_ret
        /\ UNCHANGED <<tcpVars, cpu>>

\* ja3_tc_egress: no profile or profile disabled, return TC_ACT_OK
TcPass ==
    /\ CanEnterTls
    /\ \E pid_tgid \in HookPidTgids, data \in Frames :
        /\ EnterHook("classifier/egress", pid_tgid, data)
        /\ NoJa3(LookupJa3(Shr32(pid_tgid)))
        /\ tpc' = "ret"
        /\ hook_ret' = "TC_ACT_OK"
        /\ UNCHANGED <<tcpVars, cpu>>

\* ja3_tc_egress: profile enabled, call parse_tls_client_hello
TcParse ==
    /\ CanEnterTls
    /\ \E pid_tgid \in HookPidTgids, data \in Frames :
        /\ EnterHook("classifier/egress", pid_tgid, data)
        /\ ~NoJa3(LookupJa3(Shr32(pid_tgid)))
        /\ tpc' = "START"
        /\ UNCHANGED hook_ret
        /\ UNCHANGED <<tcpVars, cpu>>

\* return 0 of parse_tls_client_hello
Reject ==
    /\ tpc' = "REJECT"
    /\ parse_ret' = 0
    /\ UNCHANGED <<ja3_stats>>

DataEnd == Len(skb.data)

\* Ethernet header in bounds, h_proto is ETH_P_IP
ParseEth ==
    /\ tpc = "START"
    /\ IF Overruns(0, EthHdrLen, DataEnd)
       THEN Reject /\ UNCHANGED <<reads, loc>>
       ELSE /\ reads' = reads \cup Rd("eth", {12, 13})
            /\ loc' = [loc EXCEPT !.ip = EthHdrLen]
            /\ IF LoadU16(skb.data, 12) # bpf_htons(ETH_P_IP)
               THEN Reject
               ELSE tpc' = "ETH_OK" /\ UNCHANGED <<parse_ret, ja3_stats>>
    /\ UNCHANGED <<ja3_profiles, skb, ja3_stats0, nmatch, hook_ret>>
    /\ UNCHANGED <<tcpVars, cpu>>

\* IPv4 header in bounds, protocol is IPPROTO_TCP
ParseIp ==
    /\ tpc = "ETH_OK"
    /\ IF Overruns(loc.ip, IpHdrLen, DataEnd)
       THEN Reject /\ UNCHANGED <<reads, loc>>
       ELSE /\ reads' = reads \cup Rd("ip", {loc.ip + 9})
            /\ UNCHANGED loc
            /\ IF Byte(skb.data, loc.ip + 9) # IPPROTO_TCP
               THEN Reject
               ELSE tpc' = "IP_OK" /\ UNCHANGED <<parse_ret, ja3_stats>>
    /\ UNCHANGED <<ja3_profiles, skb, ja3_stats0, nmatch, hook_ret>>
    /\ UNCHANGED <<tcpVars, cpu>>

\* the TCP step with the destination port test left out
ParseTcpNoPortTest ==
    /\ tpc = "IP_OK"
    /\ LET tcp == loc.ip + Ihl(Byte(skb.data, loc.ip)) * 4
       IN  /\ reads' = reads \cup Rd("ip", {loc.ip})
           /\ loc' = [loc EXCEPT !.tcp = tcp]
           /\ IF Overruns(tcp, TcpHdrLen, DataEnd)
              THEN Reject
              ELSE tpc' = "PORT_OK" /\ UNCHANGED <<parse_ret, ja3_stats>>
    /\ UNCHANGED <<ja3_profiles, skb, ja3_stats0, nmatch, hook_ret>>
    /\ UNCHANGED <<tcpVars, cpu>>

\* tcp = ip + ihl * 4, TCP header in bounds
ParseTcp ==
    /\ tpc = "IP_OK"
    /\ LET tcp == loc.ip + Ihl(Byte(skb.data, loc.ip)) * 4
       IN  /\ reads' = reads \cup Rd("ip", {loc.ip})
           /\ loc' = [loc EXCEPT !.tcp = tcp]
           /\ IF Overruns(tcp, TcpHdrLen, DataEnd)
              THEN Reject
              ELSE tpc' = "TCP_OK" /\ UNCHANGED <<parse_ret, ja3_stats>>
    /\ UNCHANGED <<ja3_profiles, skb, ja3_stats0, nmatch, hook_ret>>
    /\ UNCHANGED <<tcpVars, cpu>>

\* destination port is 443
ParsePort ==
    /\ tpc = "TCP_OK"
    /\ reads' = reads \cup Rd("tcp", {loc.tcp + 2, loc.tcp + 3})
    /\ IF LoadU16(skb.data, loc.tcp + 2) # bpf_htons(HTTPS_PORT)
       THEN Reject
       ELSE tpc' = "PORT_OK" /\ UNCHANGED <<parse_ret, ja3_stats>>
    /\ UNCHANGED <<ja3_profiles, skb, loc, ja3_stats0, nmatch, hook_ret>>
    /\ UNCHANGED <<tcpVars, cpu>>

\* payload = tcp + doff * 4, TLS record header in bounds, content type is handshake
ParseRecord ==
    /\ tpc = "PORT_OK"
    /\ LET payload == loc.tcp + Doff(Byte(skb.data, loc.tcp + 12)) * 4
       IN  /\ loc' = [loc EXCEPT !.payload = payload]
           /\ IF Overruns(payload, TlsRecordLen, DataEnd)
              THEN Reject /\ reads' = reads \cup Rd("tcp", {loc.tcp + 12})
              ELSE /\ reads' = reads \cup Rd("tcp", {loc.tcp + 12}) \cup Rd("tls", {payload})
                   /\ IF Byte(skb.data, payload) # TLS_HANDSHAKE
                      THEN Reject
                      ELSE tpc' = "RECORD_OK" /\ UNCHANGED <<parse_ret, ja3_stats>>
    /\ UNCHANGED <<ja3_profiles, skb, ja3_stats0, nmatch, hook_ret>>
    /\ UNCHANGED <<tcpVars, cpu>>

\* handshake header in bounds, msg_type is ClientHello: count it and return 1
ParseHandshake ==
    /\ tpc = "RECORD_OK"
    /\ LET handshake == loc.payload + TlsRecordLen
       IN  /\ loc' = [loc EXCEPT !.handshake = handshake]
           /\ IF Overruns(handshake, TlsHandshakeLen, DataEnd)
              THEN Reject /\ UNCHANGED reads
              ELSE /\ reads' = reads \cup Rd("handshake", {handshake})
                   /\ IF Byte(skb.data, handshake) # TLS_CLIENT_HELLO
                      THEN Reject
                      ELSE /\ ja3_stats' = update_ja3_stats(ja3_stats, "client_hello_seen")
                           /\ parse_ret' = 1
                           /\ tpc' = "HANDSHAKE_OK"
    /\ UNCHANGED <<ja3_profiles, skb, ja3_stats0, nmatch, hook_ret>>
    /\ UNCHANGED <<tcpVars, cpu>>

\* the test of the parse result written as  >= 0
DetectedGe(r) == r >= 0

\* if (parse_tls_client_hello(data, data_end, profile))
Detected(r) == r # 0

\* ja3_socket_filter after the parse: count a detected ClientHello, return 0
FilterAfterParse ==
    /\ tpc \in {"HANDSHAKE_OK", "REJECT"}
    /\ skb.hook = "socket"
    /\ IF Detected(parse_ret)
       THEN /\ ja3_stats' = update_ja3_stats(ja3_stats, "client_hello_modified")
            /\ nmatch' = nmatch + 1
       ELSE UNCHANGED <<ja3_stats, nmatch>>
    /\ tpc' = "ret"
    /\ hook_ret' = "0"
    /\ UNCHANGED <<ja3_profiles, skb, loc, reads, parse_ret, ja3_stats0>>
    /\ UNCHANGED <<tcpVars, cpu>>

\* ja3_tc_egress after the parse: nothing is done with the result, return TC_ACT_OK
TcAfterParse ==
    /\ tpc \in {"HANDSHAKE_OK", "REJECT"}
    /\ skb.hook = "classifier/egress"
    /\ nmatch' = IF Detected(parse_ret) THEN nmatch + 1 ELSE nmatch
    /\ tpc' = "ret"
    /\ hook_ret' = "TC_ACT_OK"
    /\ UNCHANGED <<ja3_profiles, ja3_stats, skb, loc, reads, parse_ret, ja3_stats0>>
    /\ UNCHANGED <<tcpVars, cpu>>

\* ja3_sockops: family filter, remote_port != bpf_htons(443) filter, then on
\* TCP_CONNECT_CB the profile lookup and the packets_passed count; return 0
Ja3Sockops ==
    /\ CanEnterTls
    /\ \E family \in Families, dport \in RemotePorts, op \in Ops, pid_tgid \in HookPidTgids :
        /\ skb' = [hook |-> "sockops", pid_tgid |-> pid_tgid, data |-> <<>>,
                   family |-> family, dport |-> dport,
                   remote_port |-> RemotePortField(dport), op |-> op]
        /\ ja3_stats0' = ja3_stats
        /\ IF NotTcpFamily(family)
           THEN UNCHANGED ja3_stats
           ELSE IF RemotePortField(dport) # U32(0, bpf_htons(HTTPS_PORT))
           THEN UNCHANGED ja3_stats
           ELSE IF op = "BPF_SOCK_OPS_TCP_CONNECT_CB" /\ ~NoJa3(LookupJa3(Shr32(pid_tgid)))
           THEN ja3_stats' = update_ja3_stats(ja3_stats, "packets_passed")
           ELSE UNCHANGED ja3_stats
        /\ tpc' = "ret"
        /\ hook_ret' = "0"
        /\ UNCHANGED <<ja3_profiles, loc, reads, parse_ret, nmatch>>
        /\ UNCHANGED <<tcpVars, cpu>>

\* the hook has returned: its frame and locals are gone
HookDone ==
    /\ tpc = "ret"
    /\ tpc' = "idle"
    /\ skb' = NoSkb
    /\ loc' = NoLoc
    /\ reads' = {}
    /\ parse_ret' = -1
    /\ ja3_stats0' = ja3_stats
    /\ UNCHANGED <<ja3_profiles, ja3_stats, nmatch, hook_ret>>
    /\ UNCHANGED <<tcpVars, cpu>>

(***************************************************************************)
(* concurrent invocations: the counter updates of each handler             *)
(***************************************************************************)
\* Each CPU runs one invocation and an invocation is not
\* preempted by another one on its CPU.  An invocation is represented by
\* the counter updates of the path it takes, in program order; every update
\* is a bpf_map_lookup_elem of the record followed by __sync_fetch_and_add.
\* Paths that update no counter do not take part.
IdleCpu == [kind |-> "idle", prog |-> <<>>, done |-> 0, seen |-> -1]

InitSmp == cpu = [c \in 1..NCpus |-> IdleCpu]

Cpus == 1..NCpus

Ctr(map, field) == [map |-> map, field |-> field]

\* the paths of tcp_fingerprint_spoof: a failed window, TTL or MSS call;
\* a connect without a failed no-delay call; a connect with one; an
\* established notification
SpoofUpdates ==
    { <<Ctr("stats", "errors")>>,
      <<Ctr("stats", "connections_modified")>>,
      <<Ctr("stats", "errors"), Ctr("stats", "connections_modified")>>,
      <<Ctr("stats", "packets_processed")>> }

\* the socket filter counting the modification before the parser's match
FilterUpdatesModifiedFirst ==
    <<Ctr("ja3_stats", "client_hello_modified"), Ctr("ja3_stats", "client_hello_seen")>>

\* ja3_socket_filter on a ClientHello: the parser counts the match, then
\* the filter counts the modification
FilterUpdates ==
    <<Ctr("ja3_stats", "client_hello_seen"), Ctr("ja3_stats", "client_hello_modified")>>

\* ja3_tc_egress on a ClientHello: the parser counts the match
TcUpdates == <<Ctr("ja3_stats", "client_hello_seen")>>

Counters ==
    {Ctr("stats", f) : f \in {"errors", "connections_modified", "packets_processed"}}
    \cup {Ctr("ja3_stats", f) : f \in {"client_hello_seen", "client_hello_modified"}}

CounterOf(t) == IF t.map = "stats" THEN stats[t.field] ELSE ja3_stats[t.field]

\* the next update of the invocation on CPU c
Pending(c) == cpu[c].prog[cpu[c].done + 1]

smpRest ==
    <<tcp_profiles, pc, skops, calls, stats0, retval, nestab, ja3_profiles,
      tpc, skb, loc, reads, parse_ret, ja3_stats0, nmatch, hook_ret>>

\* a handler is entered on an idle CPU
CpuEnter(c, kind, prog) ==
    /\ cpu[c].kind = "idle"
    /\ cpu' = [cpu EXCEPT ![c] = [kind |-> kind, prog |-> prog, done |-> 0, seen |-> -1]]
    /\ UNCHANGED <<stats, ja3_stats>>
    /\ UNCHANGED smpRest

CpuEnterSpoof ==
    \E c \in Cpus, prog \in SpoofUpdates : CpuEnter(c, "tcp_fingerprint_spoof", prog)

CpuEnterFilter == \E c \in Cpus : CpuEnter(c, "ja3_socket_filter", FilterUpdates)

CpuEnterTc == \E c \in Cpus : CpuEnter(c, "ja3_tc_egress", TcUpdates)

\* bpf_map_lookup_elem(&stats, &key) / (&ja3_stats_map, &key); seen records
\* the value the counter has at this moment
CpuLookup ==
    \E c \in Cpus :
        /\ cpu[c].done < Len(cpu[c].prog)
        /\ cpu[c].seen = -1
        /\ cpu' = [cpu EXCEPT ![c].seen = CounterOf(Pending(c))]
        /\ UNCHANGED <<stats, ja3_stats>>
        /\ UNCHANGED smpRest

\* a plain counter = counter + 1 whose load is the value seen at lookup
FetchAndAddPlain(cur, loaded) == loaded + 1

\* __sync_fetch_and_add(counter, 1): one indivisible read-modify-write
FetchAndAdd(cur, loaded) == cur + 1

CpuAdd ==
    \E c \in Cpus :
        /\ cpu[c].done < Len(cpu[c].prog)
        /\ cpu[c].seen # -1
        /\ IF Pending(c).map = "stats"
           THEN /\ stats' = [stats EXCEPT ![Pending(c).field] = FetchAndAdd(@, cpu[c].seen)]
                /\ UNCHANGED ja3_stats
           ELSE /\ ja3_stats' = [ja3_stats EXCEPT ![Pending(c).field] = FetchAndAdd(@, cpu[c].seen)]
                /\ UNCHANGED stats
        /\ cpu' = [cpu EXCEPT ![c].done = @ + 1, ![c].seen = -1]
        /\ UNCHANGED smpRest

(***************************************************************************)
(* Specifications                                                          *)
(***************************************************************************)
Init == InitTcp /\ InitTls /\ InitSmp

NextTcp ==
    \/ EnterNotTcp
    \/ EnterConnect
    \/ EnterPassive
    \/ EnterEstablished
    \/ EnterDefault
    \/ ConnectWindow
    \/ ConnectTtl
    \/ ConnectMss
    \/ ConnectNoDelay
    \/ ConnectEcn
    \/ ConnectStats
    \/ PassiveWindow
    \/ Established
    \/ SockCreateNotInet
    \/ SockCreateNotStream
    \/ SockCreateTcp
    \/ HandlerDone

NextTls ==
    \/ FilterPass
    \/ FilterParse
    \/ TcPass
    \/ TcParse
    \/ ParseEth
    \/ ParseIp
    \/ ParseTcp
    \/ ParsePort
    \/ ParseRecord
    \/ ParseHandshake
    \/ FilterAfterParse
    \/ TcAfterParse
    \/ Ja3Sockops
    \/ HookDone

\* connection events and packet events, one invocation at a time
Next == NextTcp \/ NextTls

NextSmp ==
    \/ CpuEnterSpoof
    \/ CpuEnterFilter
    \/ CpuEnterTc
    \/ CpuLookup
    \/ CpuAdd

\* invocations running at the same time on several CPUs
SpecSmp == Init /\ [][NextSmp]_vars

Spec == Init /\ [][Next]_vars

\* the steps of parse_tls_client_hello
ParseStep ==
    \/ ParseEth
    \/ ParseIp
    \/ ParseTcp
    \/ ParsePort
    \/ ParseRecord
    \/ ParseHandshake

\* packet events; a parser that was called keeps running until it returns
SpecTlsFair == Init /\ [][NextTls]_vars /\ WF_vars(ParseStep)

\* connection events only
SpecTcp == Init /\ [][NextTcp]_vars

\* packet events only
SpecTls == Init /\ [][NextTls]_vars

TypeOK ==
    /\ pc \in {"idle", "ret", "stats", "passive_window", "established"}
              \cup {ConnectOrder[i] : i \in 1..Len(ConnectOrder)}
    /\ skops \in Events \cup Socks \cup {NoSkops}
    /\ retval \in {0, 1}
    /\ parse_ret \in {-1, 0, 1}

(***************************************************************************)
(* Properties of the connection handler                                    *)
(***************************************************************************)
\* the invocation is an outbound connect on a TCP socket
IsConnect ==
    /\ skops.op = "BPF_SOCK_OPS_TCP_CONNECT_CB"
    /\ skops.family \in {"AF_INET", "AF_INET6"}

HasTcpProfile == Shr32(skops.pid_tgid) \in DOMAIN tcp_profiles

\* the invocation has returned from an outbound connect of a profiled process
ConnectReturned == pc = "ret" /\ IsConnect /\ HasTcpProfile

\* socket options through which each profile field is applied
OptsOf(field) ==
    CASE field = "window_size" -> {"TCP_WINDOW_CLAMP"}
      [] field = "ttl"         -> {"IP_TTL", "IPV6_UNICAST_HOPS"}
      [] field = "mss"         -> {"TCP_MAXSEG"}
      [] field = "no_delay"    -> {"TCP_NODELAY"}
      [] field = "ecn"         -> {"TCP_ECN"}

MutatedFields == {"window_size", "ttl", "mss", "no_delay", "ecn"}

NumCalls(opts) == Cardinality({i \in 1..Len(calls) : calls[i].optname \in opts})

NumFailed == Cardinality({i \in 1..Len(calls) : calls[i].ret # 0})

\* C1: after an outbound connect of a profiled process every non-zero field
\* of the profile has been attempted by exactly one mutation call and every
\* zero field by none, whatever the outcomes of the calls
C1_EveryConfiguredFieldAttempted ==
    ConnectReturned =>
        \A f \in MutatedFields :
            NumCalls(OptsOf(f)) = IF tcp_profiles[Shr32(skops.pid_tgid)][f] # 0 THEN 1 ELSE 0

\* C2: an outbound connect of a profiled process increments
\* connections_modified exactly once, whatever calls failed or were skipped
C2_ModifiedCountedOnce ==
    ConnectReturned =>
        stats.connections_modified = stats0.connections_modified + 1

\* C3: an outbound connect increases errors by exactly the number of
\* mutation calls that failed in it
C3_ErrorsCountFailedCalls ==
    (pc = "ret" /\ IsConnect) =>
        stats.errors = stats0.errors + NumFailed

\* position of each mutation in the documented order
Rank(optname) ==
    CASE optname = "TCP_WINDOW_CLAMP" -> 1
      [] optname \in {"IP_TTL", "IPV6_UNICAST_HOPS"} -> 2
      [] optname = "TCP_MAXSEG" -> 3
      [] optname = "TCP_NODELAY" -> 4
      [] optname = "TCP_ECN" -> 5

\* C8: the mutation calls of one outbound connect are issued in the order
\* window clamp, TTL/hop limit, MSS, no-delay, ECN, and once the invocation
\* has incremented connections_modified it has returned, so that no call
\* follows the increment
C8_MutationOrder ==
    IsConnect =>
        /\ \A i, j \in 1..Len(calls) :
              i < j => Rank(calls[i].optname) < Rank(calls[j].optname)
        /\ stats.connections_modified # stats0.connections_modified => pc = "ret"

\* all five mutations were issued and the success counter was incremented after them
C8_Witness ==
    /\ ConnectReturned
    /\ Len(calls) = 5
    /\ stats.connections_modified = stats0.connections_modified + 1

\* C9: an outbound connect of a process without a tcp_profiles entry issues
\* no mutation call and leaves the three TCP counters unchanged
C9_NoProfileNoEffect ==
    (pc # "idle" /\ IsConnect /\ ~HasTcpProfile) =>
        calls = <<>> /\ stats = stats0

\* an outbound connect of an unprofiled process has returned, after an
\* earlier invocation had already counted
C9_Witness ==
    /\ pc = "ret" /\ IsConnect /\ ~HasTcpProfile
    /\ stats.connections_modified > 0

AllSentinel(profile) == \A f \in DOMAIN profile : profile[f] = 0

\* C10: for a profile with every field at zero the handler, on any event
\* and address family, issues no mutation call and does not increment errors
C10_SentinelProfileNoCalls ==
    (pc # "idle" /\ HasTcpProfile /\ AllSentinel(tcp_profiles[Shr32(skops.pid_tgid)])) =>
        calls = <<>> /\ stats.errors = stats0.errors

\* an outbound connect with an all-zero profile ran through every block and returned
C10_Witness ==
    /\ ConnectReturned
    /\ AllSentinel(tcp_profiles[Shr32(skops.pid_tgid)])
    /\ stats.connections_modified = stats0.connections_modified + 1

(***************************************************************************)
(* Properties of the packet hooks and of the parser                        *)
(***************************************************************************)
\* parse_tls_client_hello has been called by the running hook invocation
ParseCalled == tpc \notin {"idle"} /\ (tpc = "ret" => parse_ret # -1)

\* parse_tls_client_hello has returned to a hook that has returned
ParseReturned == tpc = "ret" /\ parse_ret # -1

\* offset from data of each header the parse has located, -1 if not located
BaseOf(hdr) ==
    CASE hdr = "eth"       -> IF ParseCalled THEN 0 ELSE -1
      [] hdr = "ip"        -> loc.ip
      [] hdr = "tcp"       -> loc.tcp
      [] hdr = "tls"       -> loc.payload
      [] hdr = "handshake" -> loc.handshake

\* size in bytes of each header
SizeOf(hdr) ==
    CASE hdr = "eth"       -> 14
      [] hdr = "ip"        -> 20
      [] hdr = "tcp"       -> 20
      [] hdr = "tls"       -> 5
      [] hdr = "handshake" -> 4

Headers == {"eth", "ip", "tcp", "tls", "handshake"}

\* C4: every byte the parse reads lies before data_end, and a header that
\* does not fit entirely before data_end has none of its fields read and
\* ends the parse with no-match
C4_ReadsInBounds ==
    /\ \A r \in reads : 0 <= r.off /\ r.off < Len(skb.data)
    /\ \A h \in Headers :
          (BaseOf(h) # -1 /\ BaseOf(h) + SizeOf(h) > Len(skb.data)) =>
              /\ \A r \in reads : r.hdr # h
              /\ parse_ret # 1
              /\ tpc = "ret" => parse_ret = 0

\* a frame cut inside its TLS record header was read up to the TCP header
\* and rejected
C4_Witness ==
    /\ ParseReturned
    /\ loc.payload # -1
    /\ loc.payload + 5 > Len(skb.data)
    /\ parse_ret = 0
    /\ \E r \in reads : r.hdr = "tcp"

\* the frame d is an Ethernet/IPv4/TCP frame to port 443 that carries a TLS
\* handshake record with a ClientHello, every header in bounds (byte k of
\* the frame is d[k + 1])
IsClientHelloFrame(d) ==
    /\ Len(d) >= 14 /\ d[13] = 8 /\ d[14] = 0
    /\ Len(d) >= 34 /\ d[24] = 6
    /\ LET t == 14 + 4 * (d[15] % 16)
       IN  /\ Len(d) >= t + 20 /\ d[t + 3] = 1 /\ d[t + 4] = 187
           /\ LET q == t + 4 * (d[t + 13] \div 16)
              IN  /\ Len(d) >= q + 5 /\ d[q + 1] = 22
                  /\ Len(d) >= q + 9 /\ d[q + 6] = 1

\* C5: the parse returns match exactly for the frames whose Ethernet, IPv4,
\* TCP, TLS record and handshake headers all fit and carry ethertype IPv4,
\* protocol TCP, destination port 443, content type 0x16 and message type 1
C5_MatchIffClientHello ==
    ParseReturned => (parse_ret = 1 <=> IsClientHelloFrame(skb.data))

\* a ClientHello behind a 60 byte IPv4 header and a 60 byte TCP header matched
C5_Witness ==
    /\ ParseReturned
    /\ parse_ret = 1
    /\ loc.tcp = 74
    /\ loc.payload = 134

\* C6: a hook invocation whose parse matched has incremented
\* client_hello_seen by exactly 1, and between invocations client_hello_seen
\* equals the number of matching parses
C6_SeenCountsMatches ==
    /\ (ParseReturned /\ parse_ret = 1) =>
          ja3_stats.client_hello_seen = ja3_stats0.client_hello_seen + 1
    /\ tpc \in {"idle", "ret"} => ja3_stats.client_hello_seen = nmatch

\* the second matching parse, seen by the TC egress hook, has been counted
C6_Witness ==
    /\ ParseReturned
    /\ parse_ret = 1
    /\ skb.hook = "classifier/egress"
    /\ nmatch = 2

\* C7: a hook invocation whose parse ended in no-match leaves the four
\* TLS counters unchanged
C7_NoMatchNoCount ==
    (ParseReturned /\ parse_ret = 0) => ja3_stats = ja3_stats0

\* the socket filter saw a record of content type 0x17 in bounds and rejected it
C7_Witness ==
    /\ ParseReturned
    /\ parse_ret = 0
    /\ skb.hook = "socket"
    /\ loc.payload # -1
    /\ loc.payload + 5 <= Len(skb.data)
    /\ skb.data[loc.payload + 1] = 23

(***************************************************************************)
(* Properties of the passive and established cases, and of the TTL option  *)
(***************************************************************************)
IsTcpSocket == skops.family \in {"AF_INET", "AF_INET6"}

\* the invocation is a passive accept on a TCP socket
IsPassive == skops.op = "BPF_SOCK_OPS_PASSIVE_ESTABLISHED_CB" /\ IsTcpSocket

\* the invocation is a full-establishment notification on a TCP socket
IsEstablished == skops.op = "BPF_SOCK_OPS_ACTIVE_ESTABLISHED_CB" /\ IsTcpSocket

\* C11: a passive accept issues the window clamp call exactly when a
\* profile with a non-zero window_size exists, issues no other call, and
\* leaves the three TCP counters unchanged whatever the call returns
C11_PassiveOnlyWindowClamp ==
    /\ (pc # "idle" /\ IsPassive) =>
          /\ \A i \in 1..Len(calls) :
                calls[i].level = "SOL_TCP" /\ calls[i].optname = "TCP_WINDOW_CLAMP"
          /\ Len(calls) <= 1
          /\ stats = stats0
    /\ (pc = "ret" /\ IsPassive) =>
          Len(calls) = IF HasTcpProfile /\ tcp_profiles[Shr32(skops.pid_tgid)].window_size # 0
                       THEN 1 ELSE 0

\* a passive accept whose window clamp failed has returned
C11_Witness ==
    /\ pc = "ret" /\ IsPassive
    /\ Len(calls) = 1
    /\ calls[1].ret # 0

\* C12: a full-establishment notification adds exactly 1 to
\* packets_processed, with or without a profile, changes neither of the two
\* other counters and issues no setsockopt; between invocations
\* packets_processed equals the number of notifications handled
C12_EstablishedCounted ==
    /\ (pc = "ret" /\ IsEstablished) =>
          /\ stats = [stats0 EXCEPT !.packets_processed = @ + 1]
          /\ calls = <<>>
    /\ pc \in {"idle", "ret"} => stats.packets_processed = nestab

\* the second notification, of a process without a profile, has been counted
C12_Witness ==
    /\ pc = "ret" /\ IsEstablished
    /\ ~HasTcpProfile
    /\ stats.packets_processed = 2

\* the call sets a TTL or hop-limit option
IsTtlCall(c) ==
    c.optname \in {"IP_TTL", "IPV6_UNICAST_HOPS"} \/ c.level \in {"SOL_IP", "SOL_IPV6"}

\* C18: the TTL mutation of an outbound connect sets SOL_IP / IP_TTL on an
\* IPv4 connection and SOL_IPV6 / IPV6_UNICAST_HOPS on an IPv6 connection,
\* never the option of the other family; it is issued whenever ttl is
\* configured and the window clamp did not fail
C18_TtlOptionFamily ==
    /\ IsConnect =>
          \A i \in 1..Len(calls) :
              IsTtlCall(calls[i]) =>
                  /\ skops.family = "AF_INET" =>
                        calls[i].level = "SOL_IP" /\ calls[i].optname = "IP_TTL"
                  /\ skops.family = "AF_INET6" =>
                        calls[i].level = "SOL_IPV6" /\ calls[i].optname = "IPV6_UNICAST_HOPS"
                  /\ calls[i].val = tcp_profiles[Shr32(skops.pid_tgid)].ttl
    /\ (/\ ConnectReturned
        /\ tcp_profiles[Shr32(skops.pid_tgid)].ttl # 0
        /\ \A i \in 1..Len(calls) :
              calls[i].optname = "TCP_WINDOW_CLAMP" => calls[i].ret = 0) =>
          \E i \in 1..Len(calls) : IsTtlCall(calls[i])

\* an IPv6 connect has issued the hop-limit mutation
C18_Witness ==
    /\ ConnectReturned
    /\ skops.family = "AF_INET6"
    /\ \E i \in 1..Len(calls) :
          calls[i].level = "SOL_IPV6" /\ calls[i].optname = "IPV6_UNICAST_HOPS"

(***************************************************************************)
(* Properties of the hooks' entry tests, verdicts and counters             *)
(***************************************************************************)
IsPacketHook == skb.hook \in {"socket", "classifier/egress"}

\* the caller of the hook has no ja3_profiles entry or one with enabled = 0
Ja3Off ==
    IF Shr32(skb.pid_tgid) \in DOMAIN ja3_profiles
    THEN ja3_profiles[Shr32(skb.pid_tgid)].enabled = 0
    ELSE TRUE

\* C13: with the JA3 profile of the process absent or disabled a packet
\* hook returns without calling the parser (no byte is read, no parse
\* result exists) and changes no TLS counter, whatever the frame
C13_DisabledProfileNoParse ==
    (tpc # "idle" /\ IsPacketHook /\ Ja3Off) =>
        /\ tpc = "ret"
        /\ parse_ret = -1
        /\ reads = {}
        /\ loc = NoLoc
        /\ ja3_stats = ja3_stats0

\* a full ClientHello frame of a process with a disabled profile was passed through
C13_Witness ==
    /\ tpc = "ret" /\ IsPacketHook
    /\ Shr32(skb.pid_tgid) \in DOMAIN ja3_profiles
    /\ Ja3Off
    /\ IsClientHelloFrame(skb.data)

\* C15: no step of any connection event or packet event decreases or
\* resets a counter of either stats record
C15_CountersMonotonic ==
    [][/\ \A c \in DOMAIN stats : stats'[c] >= stats[c]
       /\ \A c \in DOMAIN ja3_stats : ja3_stats'[c] >= ja3_stats[c]]_vars

\* a connect that counted an error and then its success, after a packet
\* event had counted a ClientHello
C15_Witness ==
    /\ pc = "ret"
    /\ stats.errors = stats0.errors + 1
    /\ stats.connections_modified = stats0.connections_modified + 1
    /\ ja3_stats.client_hello_seen >= 1

\* C16: tcp_fingerprint_spoof and ja3_sockops return 0, tcp_socket_create
\* returns 1 and ja3_tc_egress returns TC_ACT_OK on every path, also after
\* a failed mutation, a missed lookup or a bounds violation of the parser
C16_VerdictsFixed ==
    /\ (pc = "ret" /\ skops.op \in Ops) => retval = 0
    /\ (pc = "ret" /\ skops.op = "sock_create") => retval = 1
    /\ (tpc = "ret" /\ skb.hook = "classifier/egress") => hook_ret = "TC_ACT_OK"
    /\ (tpc = "ret" /\ skb.hook = "sockops") => hook_ret = "0"

\* a connect whose first mutation failed has returned, after the TC egress
\* hook had returned from a parse that hit a bounds violation
C16_Witness ==
    /\ pc = "ret" /\ IsConnect
    /\ Len(calls) = 1
    /\ calls[1].ret # 0
    /\ hook_ret = "TC_ACT_OK"

ParserStates ==
    <<"START", "ETH_OK", "IP_OK", "TCP_OK", "PORT_OK", "RECORD_OK", "HANDSHAKE_OK">>

\* position of a parser state in the walk, 0 for any other position
ParserRank(st) ==
    IF \E k \in 1..Len(ParserStates) : ParserStates[k] = st
    THEN CHOOSE k \in 1..Len(ParserStates) : ParserStates[k] = st
    ELSE 0

\* C17: a parse starts in START, every step moves from a state to the next
\* one of START, ETH_OK, IP_OK, TCP_OK, PORT_OK, RECORD_OK, HANDSHAKE_OK or
\* to REJECT, HANDSHAKE_OK and REJECT are left only by the return to the
\* hook, and every parse that starts reaches HANDSHAKE_OK or REJECT
C17_ParserWalk ==
    /\ [][/\ (tpc' # tpc /\ tpc' = "START") => tpc = "idle"
          /\ (tpc' # tpc /\ ParserRank(tpc) \in 1..6) =>
                \/ ParserRank(tpc') = ParserRank(tpc) + 1 /\ parse_ret' = IF tpc' = "HANDSHAKE_OK" THEN 1 ELSE -1
                \/ tpc' = "REJECT" /\ parse_ret' = 0
          /\ (tpc' # tpc /\ tpc \in {"HANDSHAKE_OK", "REJECT"}) => tpc' = "ret"
          /\ (tpc' # tpc /\ ParserRank(tpc') > 1) => ParserRank(tpc) = ParserRank(tpc') - 1]_vars
    /\ (tpc = "START") ~> (tpc \in {"HANDSHAKE_OK", "REJECT"})

\* a parse has walked through every state to the match
C17_Witness ==
    /\ tpc = "HANDSHAKE_OK"
    /\ parse_ret = 1

\* C20: ja3_sockops adds exactly 1 to packets_passed when the event is an
\* outbound connect on an IPv4 or IPv6 socket to remote port 443 of a
\* process with an enabled JA3 profile and adds nothing otherwise; the
\* packet hooks leave packets_passed unchanged
C20_PassedCountsHttpsConnects ==
    /\ (tpc = "ret" /\ skb.hook = "sockops") =>
          ja3_stats.packets_passed = ja3_stats0.packets_passed +
              (IF /\ skb.op = "BPF_SOCK_OPS_TCP_CONNECT_CB"
                  /\ skb.family \in {"AF_INET", "AF_INET6"}
                  /\ skb.dport = 443
                  /\ ~Ja3Off
               THEN 1 ELSE 0)
    /\ (tpc # "idle" /\ IsPacketHook) =>
          ja3_stats.packets_passed = ja3_stats0.packets_passed

(***************************************************************************)
(* Properties of concurrent invocations                                    *)
(***************************************************************************)
\* number of completed updates of counter t over all CPUs
DoneAdds(t) ==
    Cardinality({ci \in Cpus \X (1..2) :
                    /\ ci[2] <= cpu[ci[1]].done
                    /\ cpu[ci[1]].prog[ci[2]] = t})

\* C14: under every interleaving of invocations on several CPUs each
\* counter equals the number of increments applied to it, no increment is
\* lost and none is applied twice
C14_AtomicIncrements == \A t \in Counters : CounterOf(t) = DoneAdds(t)

\* a CPU still holds a lookup of a counter made when it was 0 while two
\* other CPUs have incremented that counter since
C14_Witness ==
    \E c \in Cpus :
        /\ cpu[c].done < Len(cpu[c].prog)
        /\ cpu[c].seen = 0
        /\ CounterOf(Pending(c)) = 2

SeenCtr == Ctr("ja3_stats", "client_hello_seen")

ModifiedCtr == Ctr("ja3_stats", "client_hello_modified")

\* C19: client_hello_modified never exceeds client_hello_seen under any
\* interleaving; it changes only by 1 and only by a socket-filter
\* invocation whose own match has already been counted in
\* client_hello_seen; the TC egress hook never updates it
C19_ModifiedAfterSeen ==
    /\ [](ja3_stats.client_hello_modified <= ja3_stats.client_hello_seen)
    /\ [](\A c \in Cpus : cpu[c].kind = "ja3_tc_egress" =>
              \A i \in 1..Len(cpu[c].prog) : cpu[c].prog[i] # ModifiedCtr)
    /\ [][ja3_stats'.client_hello_modified # ja3_stats.client_hello_modified =>
            /\ ja3_stats'.client_hello_modified = ja3_stats.client_hello_modified + 1
            /\ \E c \in Cpus :
                /\ cpu[c].kind = "ja3_socket_filter"
                /\ cpu[c].done = 1
                /\ cpu[c].prog[1] = SeenCtr
                /\ cpu'[c].done = 2]_vars

\* one socket filter has counted its match and its modification, a second
\* one only its match, and the TC egress hook has counted a match
C19_Witness ==
    /\ ja3_stats.client_hello_modified = 1
    /\ ja3_stats.client_hello_seen = 3
    /\ \E c \in Cpus : cpu[c].kind = "ja3_tc_egress" /\ cpu[c].done = 1
    /\ \E c \in Cpus : cpu[c].kind = "ja3_socket_filter" /\ cpu[c].done = 1
====
